---- MODULE Spec2Model ----
(***************************************************************************)
(* A model of grepr: the line scanner, the word extractor, the formatters  *)
(* and the two run loops (lib.rs `run`, app.rs `GreprApp::grep`).          *)
(*                                                                         *)
(* Text is a sequence of one-character tokens.  "LF" is \n, "CR" is \r,    *)
(* "BAD" is a byte sequence that is not valid UTF-8, "RED" and "RST" are   *)
(* the escape sequences the colored crate writes around a red word.        *)
(* Offsets are 0-based as in Rust: the character at offset i is text[i+1]. *)
(***************************************************************************)
EXTENDS Integers, Sequences, FiniteSets, TLC

VARIABLES
    prog,           \* "lib": lib.rs run;  "app": app.rs GreprApp::grep;  "words": one line
    pattern,        \* Config.pattern / GreprArgs.pattern (a compiled regex)
    files,          \* Config.files / GreprArgs.filenames
    recursive,      \* Config.recursive
    count,          \* Config.count
    invert_match,   \* Config.invert_match
    stdin,          \* what is left to read on standard input
    src_lines,      \* the lines standard input was written from (input, never read by the code)
    entries,        \* run: the result of find_files
    idx,            \* position of the for loop in entries / filenames (1-based)
    pc,             \* position of the program
    file,           \* find_lines_and_fmt_with: what is left of the stream
    line_num,       \* find_lines_and_fmt_with: line_num
    res,            \* find_lines_and_fmt_with: res  /  match_pattern: match_lines
    stdout,         \* what was printed to standard output, in order
    stderr,         \* what was printed to standard error, in order
    scans,          \* history: one record per source opened, completed when its scan returned
    content,        \* match_pattern_line: the line the words are extracted from
    match_words,    \* match_pattern_line: its result
    rendered        \* Display for MatchLine: the content written for the line

vars == <<prog, pattern, files, recursive, count, invert_match, stdin, src_lines,
          entries, idx, pc, file, line_num, res, stdout, stderr, scans,
          content, match_words, rendered>>

\* ---------------------------------------------------------------- bounds

MaxFiles == 2
MaxLines == 2
MaxLen == 3

\* ------------------------------------------------------------ sequences

Min(S) == CHOOSE x \in S : \A y \in S : x <= y

RECURSIVE Concat(_)
Concat(ss) == IF ss = <<>> THEN <<>> ELSE Head(ss) \o Concat(Tail(ss))

SeqsUpTo(S, n) == UNION {[1..k -> S] : k \in 0..n}

Range(s) == {s[i] : i \in 1..Len(s)}

\* s[from+1 .. to], the Rust slice &s[from..to]
Slice(s, from, to) == SubSeq(s, from + 1, to)

StartsWithAt(s, w, i) ==
    /\ i + Len(w) <= Len(s)
    /\ \A k \in 1..Len(w) : s[i + k] = w[k]

\* ---------------------------------------------------------------- regex
\* A compiled pattern is [alts, ci]: the alternation alts[1]|alts[2]|... of
\* literals (an empty literal matches the empty string), case-insensitive
\* when ci.  The regex crate's search is
\* leftmost-first: the earliest start, and there the first alternative.

Fold(ci, c) == IF ci /\ c = "A" THEN "a" ELSE IF ci /\ c = "B" THEN "b" ELSE c

MatchAlt(alt, ci, text, i) ==
    /\ i + Len(alt) <= Len(text)
    /\ \A k \in 1..Len(alt) : Fold(ci, text[i + k]) = Fold(ci, alt[k])

\* the end of the match that starts at offset i, or -1
MatchAt(re, text, i) ==
    LET ks == {k \in 1..Len(re.alts) : MatchAlt(re.alts[k], re.ci, text, i)}
    IN  IF ks = {} THEN -1 ELSE i + Len(re.alts[Min(ks)])

\* Regex::find_at: the leftmost match <<start, end>> at or after `start`, or <<>>
FindAt(re, text, start) ==
    LET ss == {s \in start..Len(text) : MatchAt(re, text, s) # -1}
    IN  IF ss = {} THEN <<>> ELSE <<Min(ss), MatchAt(re, text, Min(ss))>>

\* Regex::is_match
IsMatch(re, text) == FindAt(re, text, 0) # <<>>

\* the start of the search that follows an empty match ending at e
NextAfterEmpty(text, e) == e + 1

\* Regex::captures_iter / find_iter: the successive non-overlapping matches.
\* An empty match right after the previous match is not accepted.
RECURSIVE FindIter(_, _, _, _)
FindIter(re, text, last_end, last_match) ==
    IF last_end > Len(text) THEN <<>>
    ELSE LET m == FindAt(re, text, last_end)
         IN  IF m = <<>> THEN <<>>
             ELSE IF m[1] = m[2]
                  THEN IF m[2] = last_match
                       THEN FindIter(re, text, NextAfterEmpty(text, m[2]), last_match)
                       ELSE <<m>> \o FindIter(re, text, NextAfterEmpty(text, m[2]), m[2])
                  ELSE <<m>> \o FindIter(re, text, m[2], m[2])

\* ------------------------------------------------------------- colouring

\* word.red() written with {}
Red(w) == <<"RED">> \o w \o <<"RST">>

\* Regex::replace_all with the closure of highlight_all_matches_red: the
\* text between the matches is copied, each match is replaced.
RECURSIVE Splice(_, _, _, _)
Splice(text, ms, k, pos) ==
    IF k > Len(ms) THEN Slice(text, pos, Len(text))
    ELSE Slice(text, pos, ms[k][1])
         \o Red(Slice(text, ms[k][1], ms[k][2]))
         \o Splice(text, ms, k + 1, ms[k][2])

highlight_all_matches_red(re, line) == Splice(line, FindIter(re, line, 0, -1), 1, 0)

default_fmt_strategy(re, line) == line

\* ------------------------------------------------------------ the scanner

\* BufRead::read_line: the bytes up to and including the first LF, or all
\* that is left.  The call fails when they are not valid UTF-8.
\* (ReadLineLen_CR: a reader that ends a line at a CR as well.)
ReadLineLen_CR(stream) ==
    LET ends == {i \in 1..Len(stream) : stream[i] \in {"LF", "CR"}}
    IN  IF ends = {} THEN Len(stream) ELSE Min(ends)

ReadLineLen(stream) ==
    LET lfs == {i \in 1..Len(stream) : stream[i] = "LF"}
    IN  IF lfs = {} THEN Len(stream) ELSE Min(lfs)

ReadLine(stream) == SubSeq(stream, 1, ReadLineLen(stream))

ReadLineFails(stream) == "BAD" \in Range(ReadLine(stream))

\* a scanner that takes invert as "keep every line as well"
Keep_Or(re, line, invert) == IsMatch(re, line) \/ invert

\* lib.rs:129, the condition under which a line is pushed
Keep(re, line, invert) == IsMatch(re, line) # invert

MatchedLine(n, c) == [line |-> n, content |-> c]

\* --------------------------------------------------------- the filesystem
\* The files the runs are made over.  Kind is what fs::metadata reports.
\* gen.txt and standard input hold the text written from src_lines: each
\* line is its body followed by its terminator (LF, CR LF, or nothing for
\* a last line that is not terminated).

SrcLine(body, term) == [body |-> body, term |-> term]

Encode(ls) == Concat([i \in 1..Len(ls) |-> ls[i].body \o ls[i].term])

Kind(path) ==
    CASE path \in {"a.txt", "empty.txt", "bin.dat", "locked.txt", "gen.txt",
                   "dir/c.txt", "dir/sub/d.txt"}
             -> "file"
      [] path \in {"dir", "dir/sub"} -> "dir"
      [] path = "fifo" -> "other"
      [] OTHER -> "missing"

\* File::open succeeds (locked.txt has no read permission)
CanOpen(path) == Kind(path) \in {"file", "other", "dir"} /\ path # "locked.txt"

FileContent(path) ==
    CASE path = "a.txt"         -> <<"a", "B", "LF", "b", "CR", "LF", "A">>
      [] path = "bin.dat"       -> <<"a", "LF", "BAD", "LF", "a", "LF">>
      [] path = "dir/c.txt"     -> <<"b", "LF">>
      [] path = "dir/sub/d.txt" -> <<"a", "LF", "a", "b", "LF">>
      [] path = "gen.txt"       -> Encode(src_lines)
      [] OTHER                  -> <<>>

\* WalkDir::new("dir"): the directory itself, then what is beneath it,
\* depth first; the order of the entries of one directory is the
\* filesystem's.
WalkOrders ==
    { <<"dir", "dir/c.txt", "dir/sub", "dir/sub/d.txt">>,
      <<"dir", "dir/sub", "dir/sub/d.txt", "dir/c.txt">> }

Specifiers == {"-", "a.txt", "empty.txt", "bin.dat", "locked.txt", "dir", "missing", "fifo"}

\* ------------------------------------------------------------- find_files

OkEntry(path) == [ok |-> TRUE, name |-> path, err |-> ""]
ErrEntry(path, e) == [ok |-> FALSE, name |-> path, err |-> e]

\* lib.rs:70-76, the filter_map over the walk of a directory
RECURSIVE WalkEntries(_)
WalkEntries(walk) ==
    IF walk = <<>> THEN <<>>
    ELSE (IF Kind(Head(walk)) = "dir" THEN <<>>
          ELSE IF Kind(Head(walk)) = "missing" THEN <<ErrEntry(Head(walk), "walk")>>
          ELSE <<OkEntry(Head(walk))>>)
         \o WalkEntries(Tail(walk))

\* lib.rs:64-86, the entries one path adds to res
FindOne(path, rec, walk) ==
    IF path = "-" THEN <<OkEntry(path)>>
    ELSE IF Kind(path) = "missing" THEN <<ErrEntry(path, "not found")>>
    ELSE IF Kind(path) = "dir"
         THEN IF rec THEN WalkEntries(walk)
              ELSE <<ErrEntry(path, "is a directory")>>
    ELSE IF Kind(path) = "file" THEN <<OkEntry(path)>>
    ELSE <<>>

RECURSIVE find_files(_, _, _)
find_files(paths, rec, walk) ==
    IF paths = <<>> THEN <<>>
    ELSE FindOne(Head(paths), rec, walk) \o find_files(Tail(paths), rec, walk)

\* -------------------------------------------------------------- lib.rs run

\* What one print call writes: the source name (header), "<name>:<n>"
\* (count), "<n>" (num), or a formatted line with its line number n, its
\* columns (app.rs only) and its content.
Header(f)       == [kind |-> "header", name |-> f,  n |-> 0, cols |-> <<>>, content |-> <<>>]
CountLine(f, k) == [kind |-> "count",  name |-> f,  n |-> k, cols |-> <<>>, content |-> <<>>]
Num(k)          == [kind |-> "num",    name |-> "", n |-> k, cols |-> <<>>, content |-> <<>>]
\* lib.rs:111-115, Display for MatchedLine
Line(ml)        == [kind |-> "line",   name |-> "", n |-> ml.line, cols |-> <<>>, content |-> ml.content]

Lines(matches) == [i \in 1..Len(matches) |-> Line(matches[i])]

\* lib.rs:185, the test that selects the output mode
MultiMode(n_entries) == n_entries > 1

\* a run that prints the header of every source, matches or not
PrintMatches_AlwaysHeader(filename, matches, n_entries, cnt) ==
    IF MultiMode(n_entries)
    THEN IF cnt THEN <<CountLine(filename, Len(matches))>>
         ELSE <<Header(filename)>> \o Lines(matches)
    ELSE IF cnt THEN <<Num(Len(matches))>>
         ELSE Lines(matches)

\* lib.rs:182-205, what is printed for one scanned source
PrintMatches(filename, matches, n_entries, cnt) ==
    IF MultiMode(n_entries)
    THEN IF cnt THEN <<CountLine(filename, Len(matches))>>
         ELSE (IF Len(matches) > 0 THEN <<Header(filename)>> ELSE <<>>) \o Lines(matches)
    ELSE IF cnt THEN <<Num(Len(matches))>>
         ELSE Lines(matches)

Scan(f, text) == [name |-> f, text |-> text, matches |-> <<>>, out |-> <<>>, completed |-> FALSE]

words_vars == <<content, match_words, rendered>>
cfg_vars == <<prog, pattern, files, recursive, count, invert_match, src_lines>>
scan_vars == <<file, line_num, res>>

\* lib.rs:168
FindFilesStep ==
    /\ prog = "lib" /\ pc = "start"
    /\ \E walk \in WalkOrders : entries' = find_files(files, recursive, walk)
    /\ idx' = 1
    /\ pc' = "loop"
    /\ UNCHANGED <<cfg_vars, stdin, scan_vars, stdout, stderr, scans, words_vars>>

\* lib.rs:172, an entry that is an error: reported, the loop goes on
EntryErr ==
    /\ prog = "lib" /\ pc = "loop" /\ idx <= Len(entries)
    /\ ~entries[idx].ok
    /\ stderr' = Append(stderr, [name |-> entries[idx].name, err |-> entries[idx].err])
    /\ idx' = idx + 1
    /\ UNCHANGED <<cfg_vars, stdin, entries, pc, scan_vars, stdout, scans, words_vars>>

\* lib.rs:173-174, open fails: reported, the loop goes on
OpenErr ==
    /\ prog = "lib" /\ pc = "loop" /\ idx <= Len(entries)
    /\ entries[idx].ok
    /\ entries[idx].name # "-" /\ ~CanOpen(entries[idx].name)
    /\ stderr' = Append(stderr, [name |-> entries[idx].name, err |-> "open"])
    /\ idx' = idx + 1
    /\ UNCHANGED <<cfg_vars, stdin, entries, pc, scan_vars, stdout, scans, words_vars>>

\* lib.rs:173-175 and 123-125, open succeeds and the scan starts
OpenOk ==
    /\ prog = "lib" /\ pc = "loop" /\ idx <= Len(entries)
    /\ entries[idx].ok
    /\ entries[idx].name = "-" \/ CanOpen(entries[idx].name)
    /\ file' = IF entries[idx].name = "-" THEN stdin ELSE FileContent(entries[idx].name)
    /\ stdin' = IF entries[idx].name = "-" THEN <<>> ELSE stdin
    /\ line_num' = 0
    /\ res' = <<>>
    /\ pc' = "scan"
    /\ scans' = Append(scans, Scan(entries[idx].name, file'))
    /\ UNCHANGED <<cfg_vars, entries, idx, stdout, stderr, words_vars>>

\* lib.rs:126-134, one turn of the while loop
ReadLineStep ==
    /\ prog = "lib" /\ pc = "scan"
    /\ file # <<>> /\ ~ReadLineFails(file)
    /\ LET line == ReadLine(file)
       IN  /\ line_num' = line_num + 1
           /\ res' = IF Keep(pattern, line, invert_match)
                     THEN Append(res, MatchedLine(line_num', highlight_all_matches_red(pattern, line)))
                     ELSE res
           /\ file' = SubSeq(file, Len(line) + 1, Len(file))
    /\ UNCHANGED <<cfg_vars, stdin, entries, idx, pc, stdout, stderr, scans, words_vars>>

\* lib.rs:126 and 180, read_line fails: the ? operators return the error from run
ReadLineErr ==
    /\ prog = "lib" /\ pc = "scan"
    /\ file # <<>> /\ ReadLineFails(file)
    /\ pc' = "failed"
    /\ UNCHANGED <<cfg_vars, stdin, entries, idx, scan_vars, stdout, stderr, scans, words_vars>>

\* lib.rs:126 read_line returns 0, 136, and 182-205
ScanDone ==
    /\ prog = "lib" /\ pc = "scan"
    /\ file = <<>>
    /\ LET out == PrintMatches(entries[idx].name, res, Len(entries), count)
       IN  /\ stdout' = stdout \o out
           /\ scans' = [scans EXCEPT ![Len(scans)].matches = res,
                                     ![Len(scans)].out = out,
                                     ![Len(scans)].completed = TRUE]
    /\ idx' = idx + 1
    /\ pc' = "loop"
    /\ UNCHANGED <<cfg_vars, stdin, entries, scan_vars, stderr, words_vars>>

\* lib.rs:210
Finish ==
    /\ prog = "lib" /\ pc = "loop" /\ idx > Len(entries)
    /\ pc' = "done"
    /\ UNCHANGED <<cfg_vars, stdin, entries, idx, scan_vars, stdout, stderr, scans, words_vars>>

\* ------------------------------------------------------------ matcher.rs

\* a line as str::lines yields it: without its LF, and without the CR before that LF
StripTerminator(raw) ==
    IF raw # <<>> /\ raw[Len(raw)] = "LF"
    THEN IF Len(raw) >= 2 /\ raw[Len(raw) - 1] = "CR"
         THEN SubSeq(raw, 1, Len(raw) - 2)
         ELSE SubSeq(raw, 1, Len(raw) - 1)
    ELSE raw

\* str::lines
RECURSIVE StrLines(_)
StrLines(text) ==
    IF text = <<>> THEN <<>>
    ELSE <<StripTerminator(ReadLine(text))>>
         \o StrLines(SubSeq(text, ReadLineLen(text) + 1, Len(text)))

\* a conversion that takes the end of the match for its column
MatchWord_End(m, text) == [col |-> m[2], word |-> Slice(text, m[1], m[2])]

\* matcher.rs:33-40
MatchWord(m, text) == [col |-> m[1], word |-> Slice(text, m[1], m[2])]

\* matcher.rs:64-77; None is the empty sequence, Some(v) is v
match_pattern_line(text, re) ==
    LET ms == FindIter(re, text, 0, -1)
    IN  [k \in 1..Len(ms) |-> MatchWord(ms[k], text)]

MatchLine(row, text, words) == [row |-> row, content |-> text, match_words |-> words]

\* matcher.rs:49-55, the filter_map over lines().enumerate(), from row on
RECURSIVE MatchLinesFrom(_, _, _)
MatchLinesFrom(lines, row, re) ==
    IF lines = <<>> THEN <<>>
    ELSE (IF match_pattern_line(Head(lines), re) = <<>> THEN <<>>
          ELSE <<MatchLine(row, Head(lines), match_pattern_line(Head(lines), re))>>)
         \o MatchLinesFrom(Tail(lines), row + 1, re)

\* matcher.rs:46-62; None is the empty sequence
match_pattern(text, re) == MatchLinesFrom(StrLines(text), 0, re)

\* str::replace: every non-overlapping occurrence of `from`, left to right
\* (an empty `from` occurs before every character and at the end)
RECURSIVE StrReplace(_, _, _, _)
StrReplace(s, from, to, i) ==
    IF i >= Len(s) THEN (IF from = <<>> THEN to ELSE <<>>)
    ELSE IF from = <<>> THEN to \o <<s[i + 1]>> \o StrReplace(s, from, to, i + 1)
    ELSE IF StartsWithAt(s, from, i) THEN to \o StrReplace(s, from, to, i + Len(from))
    ELSE <<s[i + 1]>> \o StrReplace(s, from, to, i + 1)

\* matcher.rs:85-89, the HashSet of the words
DistinctWords(ml) == {ml.match_words[k].word : k \in 1..Len(ml.match_words)}

\* matcher.rs:93-97: every turn of the loop assigns content from
\* self.content, so the content written is the one of the last turn; `last`
\* is the word the HashSet yields last.
RenderContent(ml, last) == StrReplace(ml.content, last, Red(last), 0)

\* matcher.rs:80-101, Display for MatchLine
FormatMatchLine(ml, last) ==
    [kind |-> "line", name |-> "", n |-> ml.row + 1,
     cols |-> [k \in 1..Len(ml.match_words) |-> ml.match_words[k].col + 1],
     content |-> RenderContent(ml, last)]

\* ------------------------------------------------------ app.rs GreprApp::grep

\* Path::file_name
FileName(path) ==
    CASE path = "dir/c.txt" -> "c.txt"
      [] path = "dir/sub/d.txt" -> "d.txt"
      [] OTHER -> path

\* File::open and read_to_string both succeed
AppReadable(path) ==
    /\ CanOpen(path) /\ Kind(path) = "file"
    /\ "BAD" \notin Range(FileContent(path))

\* app.rs:69-76, a file is opened, read and matched; 77-84 the header
AppOpen ==
    /\ prog = "app" /\ pc = "loop" /\ idx <= Len(files)
    /\ AppReadable(files[idx])
    /\ res' = match_pattern(FileContent(files[idx]), pattern)
    /\ line_num' = 0
    /\ IF res' = <<>>
       THEN /\ idx' = idx + 1
            /\ pc' = "loop"
            /\ stdout' = stdout
            /\ scans' = Append(scans, [Scan(FileName(files[idx]), FileContent(files[idx]))
                                         EXCEPT !.completed = TRUE])
       ELSE /\ idx' = idx
            /\ pc' = "print"
            /\ stdout' = Append(stdout, Header(FileName(files[idx])))
            /\ scans' = Append(scans, [Scan(FileName(files[idx]), FileContent(files[idx]))
                                         EXCEPT !.matches = res',
                                                !.out = <<Header(FileName(files[idx]))>>])
    /\ UNCHANGED <<cfg_vars, stdin, entries, file, stderr, words_vars>>

\* app.rs:85, one matched line is printed
AppPrintLine ==
    /\ prog = "app" /\ pc = "print" /\ line_num < Len(res)
    /\ \E last \in DistinctWords(res[line_num + 1]) :
         LET out == FormatMatchLine(res[line_num + 1], last)
         IN  /\ stdout' = Append(stdout, out)
             /\ scans' = [scans EXCEPT ![Len(scans)].out = Append(@, out),
                                       ![Len(scans)].completed = (line_num + 1 = Len(res))]
    /\ line_num' = line_num + 1
    /\ pc' = IF line_num' = Len(res) THEN "loop" ELSE "print"
    /\ idx' = IF line_num' = Len(res) THEN idx + 1 ELSE idx
    /\ UNCHANGED <<cfg_vars, stdin, entries, file, res, stderr, words_vars>>

\* app.rs:70 and 74, the ? operators return the error from grep
AppFail ==
    /\ prog = "app" /\ pc = "loop" /\ idx <= Len(files)
    /\ ~AppReadable(files[idx])
    /\ pc' = "failed"
    /\ UNCHANGED <<cfg_vars, stdin, entries, idx, scan_vars, stdout, stderr, scans, words_vars>>

\* app.rs:90
AppFinish ==
    /\ prog = "app" /\ pc = "loop" /\ idx > Len(files)
    /\ pc' = "done"
    /\ UNCHANGED <<cfg_vars, stdin, entries, idx, scan_vars, stdout, stderr, scans, words_vars>>

\* ------------------------------------------------------- one line, its words

run_vars == <<stdin, entries, idx, scan_vars, stdout, stderr, scans>>

\* matcher.rs:64-77 applied to content
ExtractWords ==
    /\ prog = "words" /\ pc = "start"
    /\ match_words' = match_pattern_line(content, pattern)
    /\ pc' = "extracted"
    /\ UNCHANGED <<cfg_vars, run_vars, content, rendered>>

\* matcher.rs:80-101 applied to the line and its words
FormatWords ==
    /\ prog = "words" /\ pc = "extracted" /\ match_words # <<>>
    /\ \E last \in DistinctWords(MatchLine(0, content, match_words)) :
         rendered' = FormatMatchLine(MatchLine(0, content, match_words), last).content
    /\ pc' = "shown"
    /\ UNCHANGED <<cfg_vars, run_vars, content, match_words>>

\* lib.rs:156-160 applied to the line
HighlightLine ==
    /\ prog = "words" /\ pc = "extracted"
    /\ rendered' = highlight_all_matches_red(pattern, content)
    /\ pc' = "highlighted"
    /\ UNCHANGED <<cfg_vars, run_vars, content, match_words>>

\* ------------------------------------------------------------------ inputs

Pat(alts, ci) == [alts |-> alts, ci |-> ci]

\* a, (?i)a, \n
RunPatterns == { Pat(<<<<"a">>>>, FALSE), Pat(<<<<"a">>>>, TRUE), Pat(<<<<"LF">>>>, FALSE) }

StdinLines == <<SrcLine(<<"b", "a">>, <<"LF">>), SrcLine(<<"b">>, <<>>)>>

NoRun ==
    /\ entries = <<>> /\ idx = 0
    /\ file = <<>> /\ line_num = 0 /\ res = <<>>
    /\ stdout = <<>> /\ stderr = <<>> /\ scans = <<>>

NoWords == content = <<>> /\ match_words = <<>> /\ rendered = <<>>

InitRun ==
    /\ prog = "lib"
    /\ pattern \in RunPatterns
    /\ files \in SeqsUpTo(Specifiers, MaxFiles) \ {<<>>}
    /\ recursive \in BOOLEAN
    /\ count \in BOOLEAN
    /\ invert_match \in BOOLEAN
    /\ src_lines = StdinLines
    /\ stdin = Encode(src_lines)
    /\ pc = "start"
    /\ NoRun /\ NoWords

\* the paths the glob of app.rs:94-111 can yield
AppFiles == {"a.txt", "empty.txt", "bin.dat", "locked.txt", "dir/sub/d.txt"}

\* a, a|b, (?i)a
AppPatterns == { Pat(<<<<"a">>>>, FALSE), Pat(<<<<"a">>, <<"b">>>>, FALSE), Pat(<<<<"a">>>>, TRUE) }

InitApp ==
    /\ prog = "app"
    /\ pattern \in AppPatterns
    /\ files \in SeqsUpTo(AppFiles, MaxFiles)
    /\ recursive = FALSE /\ count = FALSE /\ invert_match = FALSE
    /\ src_lines = StdinLines
    /\ stdin = Encode(src_lines)
    /\ pc = "loop"
    /\ entries = <<>> /\ idx = 1
    /\ file = <<>> /\ line_num = 0 /\ res = <<>>
    /\ stdout = <<>> /\ stderr = <<>> /\ scans = <<>>
    /\ NoWords

Init == InitRun \/ InitApp

Next ==
    \/ FindFilesStep
    \/ EntryErr
    \/ OpenErr
    \/ OpenOk
    \/ ReadLineStep
    \/ ReadLineErr
    \/ ScanDone
    \/ Finish
    \/ AppOpen
    \/ AppPrintLine
    \/ AppFail
    \/ AppFinish

Spec == Init /\ [][Next]_vars

\* ----- the scanner over every text of at most MaxLines lines

LineBodies == { <<>>, <<"a">>, <<"A", "b">>, <<"b", "CR", "a">> }

Terminators == { <<"LF">>, <<"CR", "LF">> }

\* every line but the last is terminated; the last one may be left
\* unterminated when it is not empty
SrcTexts ==
    { ls \in SeqsUpTo([body : LineBodies, term : Terminators \cup {<<>>}], MaxLines) :
        \A i \in 1..Len(ls) :
            ls[i].term = <<>> => (i = Len(ls) /\ ls[i].body # <<>>) }

\* a, (?i)a, \n, \r
ScanPatterns ==
    { Pat(<<<<"a">>>>, FALSE), Pat(<<<<"a">>>>, TRUE),
      Pat(<<<<"LF">>>>, FALSE), Pat(<<<<"CR">>>>, FALSE) }

InitScan ==
    /\ prog \in {"lib", "app"}
    /\ pattern \in ScanPatterns
    /\ src_lines \in SrcTexts
    /\ stdin = Encode(src_lines)
    /\ files = IF prog = "lib" THEN <<"-">> ELSE <<"gen.txt">>
    /\ recursive = FALSE
    /\ count \in (IF prog = "lib" THEN BOOLEAN ELSE {FALSE})
    /\ invert_match \in (IF prog = "lib" THEN BOOLEAN ELSE {FALSE})
    /\ pc = IF prog = "lib" THEN "start" ELSE "loop"
    /\ entries = <<>> /\ idx = IF prog = "lib" THEN 0 ELSE 1
    /\ file = <<>> /\ line_num = 0 /\ res = <<>>
    /\ stdout = <<>> /\ stderr = <<>> /\ scans = <<>>
    /\ NoWords

NextScan ==
    \/ FindFilesStep
    \/ OpenOk
    \/ ReadLineStep
    \/ ScanDone
    \/ Finish
    \/ AppOpen
    \/ AppPrintLine
    \/ AppFinish

SpecScan == InitScan /\ [][NextScan]_vars

\* ----- the word extractor and the formatters over every line of at most MaxLen characters

WordChars == {"a", "b", "A"}

\* a, a|b, ab|a, (?i)a, the empty pattern, a? (a, or else the empty string)
WordPatterns ==
    { Pat(<<<<"a">>>>, FALSE), Pat(<<<<"a">>, <<"b">>>>, FALSE),
      Pat(<<<<"a", "b">>, <<"a">>>>, FALSE), Pat(<<<<"a">>>>, TRUE),
      Pat(<<<<>>>>, FALSE), Pat(<<<<"a">>, <<>>>>, FALSE) }

InitWords ==
    /\ prog = "words"
    /\ pattern \in WordPatterns
    /\ content \in SeqsUpTo(WordChars, MaxLen)
    /\ match_words = <<>> /\ rendered = <<>>
    /\ files = <<>> /\ recursive = FALSE /\ count = FALSE /\ invert_match = FALSE
    /\ src_lines = <<>> /\ stdin = <<>>
    /\ pc = "start"
    /\ NoRun

NextWords ==
    \/ ExtractWords
    \/ FormatWords
    \/ HighlightLine

SpecWords == InitWords /\ [][NextWords]_vars

\* ------------------------------------------------------------------ claims

Terminated == pc \in {"done", "failed"}

\* the sources find_files resolved
NumResolved == Cardinality({k \in 1..Len(entries) : entries[k].ok})

Completed == {k \in 1..Len(scans) : scans[k].completed}

\* a source that can be opened and read to its end
Scannable(e) ==
    /\ e.ok
    /\ e.name = "-" \/ (CanOpen(e.name) /\ "BAD" \notin Range(FileContent(e.name)))

\* The lines of a text, by their offsets: a line starts at offset 0 and
\* after every LF that is not the last character; it runs through the next
\* LF, or to the end of the text.
LineStarts(text) ==
    IF text = <<>> THEN {}
    ELSE {0} \cup {i \in 1..(Len(text) - 1) : text[i] = "LF"}

LineEnd(text, s) ==
    IF \E j \in (s + 1)..Len(text) : text[j] = "LF"
    THEN Min({j \in (s + 1)..Len(text) : text[j] = "LF"})
    ELSE Len(text)

RawLineAt(text, s) == Slice(text, s, LineEnd(text, s))

\* the number of lines of a text the run's pattern and invert flag keep
KeptCount(text) ==
    Cardinality({s \in LineStarts(text) : IsMatch(pattern, RawLineAt(text, s)) # invert_match})

\* C1: a failure on one source never aborts the run: when run has returned,
\* every source that can be opened and read has been scanned and reported,
\* whatever happened to the sources before it.
C1_FailureNeverAborts ==
    (prog = "lib" /\ Terminated) =>
        \A k \in 1..Len(entries) :
            Scannable(entries[k]) =>
                \E j \in Completed : scans[j].name = entries[k].name

\* C2: the output mode is chosen by the number of resolved sources: with
\* exactly one resolved source and count = false no header is printed, also
\* when other specifiers failed to resolve; with two or more resolved
\* sources every scanned source prints a count line or a header shown when
\* it has matches.
C2_ModeByResolvedSources ==
    prog = "lib" =>
        /\ (NumResolved = 1 /\ ~count) =>
               \A i \in 1..Len(stdout) : stdout[i].kind # "header"
        /\ NumResolved >= 2 =>
               \A k \in Completed :
                   scans[k].out =
                       IF count THEN <<CountLine(scans[k].name, Len(scans[k].matches))>>
                       ELSE (IF Len(scans[k].matches) > 0
                             THEN <<Header(scans[k].name)>> ELSE <<>>)
                            \o Lines(scans[k].matches)

\* C5: with count set, a multi-source run (two or more resolved sources)
\* prints exactly one line "<name>:<count>" for every scanned source, count
\* being the number of its kept lines, also when that is 0; a single-source
\* run prints only the number.
C5_CountLines ==
    (prog = "lib" /\ count) =>
        \A k \in Completed :
            /\ NumResolved >= 2 =>
                   scans[k].out = <<CountLine(scans[k].name, KeptCount(scans[k].text))>>
            /\ NumResolved = 1 =>
                   scans[k].out = <<Num(KeptCount(scans[k].text))>>

\* C6: in a multi-source run without count, the name of a source is
\* printed iff the source has a kept line, before its lines, and a source
\* without a kept line prints nothing; nothing else is printed.
C6_HeaderIffKept ==
    /\ (prog = "lib" /\ ~count /\ NumResolved >= 2) =>
           /\ \A k \in Completed :
                  /\ Len(scans[k].matches) = KeptCount(scans[k].text)
                  /\ scans[k].out =
                         IF Len(scans[k].matches) > 0
                         THEN <<Header(scans[k].name)>> \o Lines(scans[k].matches)
                         ELSE <<>>
           /\ stdout = Concat([k \in 1..Len(scans) |-> scans[k].out])
    /\ (prog = "app" /\ Len(files) >= 2) =>
           /\ \A k \in Completed :
                  IF scans[k].matches = <<>> THEN scans[k].out = <<>>
                  ELSE /\ Len(scans[k].out) = 1 + Len(scans[k].matches)
                       /\ scans[k].out[1] = Header(scans[k].name)
                       /\ \A i \in 1..Len(scans[k].matches) :
                              /\ scans[k].out[i + 1].kind = "line"
                              /\ scans[k].out[i + 1].n = scans[k].matches[i].row + 1
           /\ stdout = Concat([k \in 1..Len(scans) |-> scans[k].out])

\* C6 witness: a finished multi-source run without count in which one
\* source printed its header and lines and another one printed nothing
C6_Witness ==
    /\ prog = "lib" /\ pc = "done" /\ ~count /\ NumResolved >= 2
    /\ \E j, k \in Completed :
           /\ Len(scans[j].matches) > 0 /\ scans[j].out[1].kind = "header"
           /\ Len(scans[k].matches) = 0 /\ scans[k].out = <<>>

\* the non-directory entries beneath dir
FilesBeneathDir == {"dir/c.txt", "dir/sub/d.txt"}

\* what one specifier is to leave in the result of find_files
Accounted(path, seg) ==
    IF path = "-" \/ Kind(path) = "file" THEN seg = <<OkEntry(path)>>
    ELSE IF Kind(path) = "dir" /\ ~recursive THEN seg = <<ErrEntry(path, "is a directory")>>
    ELSE IF Kind(path) = "dir"
         THEN /\ \A i \in 1..Len(seg) : seg[i].ok
              /\ {seg[i].name : i \in 1..Len(seg)} = FilesBeneathDir
              /\ Len(seg) = Cardinality(FilesBeneathDir)
    ELSE IF Kind(path) = "missing"
         THEN Len(seg) = 1 /\ ~seg[1].ok /\ seg[1].name = path
    ELSE Len(seg) = 1 /\ seg[1].name = path

RECURSIVE AllAccounted(_, _)
AllAccounted(paths, es) ==
    IF paths = <<>> THEN es = <<>>
    ELSE \E n \in 0..Len(es) :
             /\ Accounted(Head(paths), SubSeq(es, 1, n))
             /\ AllAccounted(Tail(paths), SubSeq(es, n + 1, Len(es)))

\* C10: the result of find_files is, in specifier order, what every
\* specifier leaves: one Ok entry for "-" or a regular file, one error
\* "<path> is a directory" for a directory without recursive, one error
\* for a nonexistent path, the non-directory entries beneath a directory
\* with recursive; no specifier is left without an entry.
C10_EverySpecifierAccounted ==
    (prog = "lib" /\ pc # "start") => AllAccounted(files, entries)

\* ----- the scanner (SpecScan)

\* line n of the input as it was written, terminator included
SrcRaw(n) == src_lines[n].body \o src_lines[n].term

\* the numbers of the lines the pattern matches
MatchingLines == {n \in 1..Len(src_lines) : IsMatch(pattern, SrcRaw(n))}

\* the numbers of the lines the scanner kept
KeptNumbers == {res[i].line : i \in 1..Len(res)}

ScanReturned == prog = "lib" /\ Completed # {}

\* C3: a line is kept iff (the pattern matches it) XOR invert: of the
\* lines read so far the kept ones are the matching ones without invert and
\* exactly the others with invert, each once, so the two counts sum to the
\* number of lines.
C3_KeepIffMatchXorInvert ==
    prog = "lib" =>
        /\ KeptNumbers = {n \in 1..line_num : (n \in MatchingLines) # invert_match}
        /\ Len(res) = Cardinality(KeptNumbers)
        /\ ScanReturned =>
               Len(res) = IF invert_match
                          THEN Len(src_lines) - Cardinality(MatchingLines)
                          ELSE Cardinality(MatchingLines)

\* C3 witness: an inverted scan returned, having kept some lines and dropped others
C3_Witness ==
    /\ ScanReturned /\ pc = "done" /\ invert_match
    /\ Len(res) >= 1 /\ Cardinality(MatchingLines) >= 1

\* C4: an input of N lines is read as N lines numbered 1..N: while the
\* scan runs, what is left of the stream is the lines after line_num; when
\* it has returned, line_num = N; every kept line carries its position and
\* is that line of the input.  The same holds of match_pattern, whose rows
\* are shown as row + 1.
C4_LinesNumberedOnce ==
    /\ prog = "lib" =>
           /\ pc = "scan" =>
                  file = Encode(SubSeq(src_lines, line_num + 1, Len(src_lines)))
           /\ ScanReturned => line_num = Len(src_lines)
           /\ \A i \in 1..Len(res) :
                  /\ res[i].line \in 1..line_num
                  /\ i < Len(res) => res[i].line < res[i + 1].line
                  /\ res[i].content = highlight_all_matches_red(pattern, SrcRaw(res[i].line))
    /\ (prog = "app" /\ scans # <<>>) =>
           /\ \A i \in 1..Len(res) :
                  /\ res[i].row + 1 \in 1..Len(src_lines)
                  /\ i < Len(res) => res[i].row < res[i + 1].row
                  /\ res[i].content = src_lines[res[i].row + 1].body
           /\ {res[i].row + 1 : i \in 1..Len(res)}
                  = {n \in 1..Len(src_lines) : IsMatch(pattern, src_lines[n].body)}
           /\ \A i \in 1..Len(stdout) :
                  stdout[i].kind = "line" => stdout[i].n = res[i - 1].row + 1

\* C4 witness: a scan of MaxLines lines returned, the last line is not
\* terminated and was kept, an earlier line was dropped
C4_Witness ==
    /\ ScanReturned /\ pc = "done"
    /\ Len(src_lines) = MaxLines
    /\ src_lines[Len(src_lines)].term = <<>>
    /\ Len(res) >= 1 /\ Len(res) < Len(src_lines)
    /\ res[Len(res)].line = Len(src_lines)

\* C7: the text the scanner matches against and stores has no line
\* terminator: a line is kept iff its body, without LF or CR LF, is, and
\* the content stored holds no LF.
C7_TerminatorsStripped ==
    prog = "lib" =>
        /\ \A i \in 1..Len(res) : "LF" \notin Range(res[i].content)
        /\ KeptNumbers =
               {n \in 1..line_num : IsMatch(pattern, src_lines[n].body) # invert_match}

\* ----- the words of a line (SpecWords)

\* the offsets of the original text that are written between RED and RST
RECURSIVE RedOffsets(_, _, _, _)
RedOffsets(r, i, off, depth) ==
    IF i > Len(r) THEN {}
    ELSE IF r[i] = "RED" THEN RedOffsets(r, i + 1, off, depth + 1)
    ELSE IF r[i] = "RST" THEN RedOffsets(r, i + 1, off, depth - 1)
    ELSE (IF depth > 0 THEN {off} ELSE {}) \cup RedOffsets(r, i + 1, off + 1, depth)

Plain(r) == SelectSeq(r, LAMBDA c : c \notin {"RED", "RST"})

\* C8: the formatted line emphasizes every occurrence of every distinct
\* matched word: the rendered text is the line with escapes added, and
\* every character of every matched word is written in red.
C8_AllWordsEmphasized ==
    (prog = "words" /\ pc \in {"shown", "highlighted"}) =>
        /\ Plain(rendered) = content
        /\ \A k \in 1..Len(match_words) :
               \A o \in match_words[k].col..(match_words[k].col + Len(match_words[k].word) - 1) :
                   o \in RedOffsets(rendered, 1, 0, 0)

\* the end offset of word k
WordEnd(k) == match_words[k].col + Len(match_words[k].word)

\* C9: the words are the non-overlapping leftmost-first occurrences of the
\* pattern, left to right: each is a match of the pattern at its offset,
\* starts at or after the end of the one before and strictly after its
\* start, and no match starts in between (but the empty match that would
\* touch the previous word); there is a word iff the pattern matches the
\* line; there are at most Len(content) + 1 of them.
C9_WordsLeftmostNonOverlapping ==
    (prog = "words" /\ pc # "start") =>
        /\ (match_words # <<>>) <=> IsMatch(pattern, content)
        /\ Len(match_words) <= Len(content) + 1
        /\ \A k \in 1..Len(match_words) :
               /\ match_words[k].col \in 0..Len(content)
               /\ match_words[k].word = Slice(content, match_words[k].col, WordEnd(k))
               /\ MatchAt(pattern, content, match_words[k].col) = WordEnd(k)
               /\ k > 1 => /\ match_words[k].col >= WordEnd(k - 1)
                           /\ match_words[k].col > match_words[k - 1].col
               /\ \A s \in (IF k = 1 THEN 0 ELSE WordEnd(k - 1))..(match_words[k].col - 1) :
                      MatchAt(pattern, content, s) # -1 =>
                          (k > 1 /\ s = WordEnd(k - 1) /\ MatchAt(pattern, content, s) = s)
        /\ \A s \in (IF match_words = <<>> THEN 0
                     ELSE WordEnd(Len(match_words)) + 1)..Len(content) :
               MatchAt(pattern, content, s) = -1

\* C9 witness: a pattern that matches the empty string gave a word at
\* every offset of a line of MaxLen characters
C9_Witness ==
    /\ prog = "words" /\ pc = "extracted"
    /\ MatchAt(pattern, <<>>, 0) = 0
    /\ Len(content) = MaxLen
    /\ Len(match_words) = Len(content) + 1

====
